---- MODULE Spec2Model ----
(***************************************************************************)
(* A model of resynth.c: the texture resynthesis run (run, try_point,     *)
(* make_offset_list, wrap_or_clip) and the batch loop of main that calls   *)
(* it once per image file with one reused Resynth_state.                   *)
(*                                                                         *)
(* Images are arrays of pixels indexed by the linear pixel index           *)
(* y * width + x of image_at, starting at 0; a pixel is the tuple of its   *)
(* channels.  A freed or never allocated array is the empty function.      *)
(***************************************************************************)
EXTENDS Integers, Sequences, FiniteSets, TLC

\* ------------------------------------------------------------------------
\* Bounds of the model
\* ------------------------------------------------------------------------
\* largest width and height of a decoded image
MaxDim == 2
\* largest number of pixels of a decoded image
MaxArea == 2
\* largest value of parameters.neighbors
MaxNeighbors == 2
\* largest value of parameters.tries
MaxTries == 1
\* largest value of parameters.polish
MaxPolish == 1
\* number of iterations of the scheduling loop that are followed one by one
MaxRounds == 2
\* number of entries data_points can hold before stb__sbgrowf runs out of memory
MaxPoints == 6
\* number of image files on the command line
MaxFiles == 2
\* largest value of the seed flag
MaxSeed == 1
\* largest absolute coordinate handed to wrap_or_clip on its own
MaxCoord == 5
\* largest image width and height handed to make_offset_list on its own
MaxOffsetW == 3
MaxOffsetH == 2
\* width of the one-row images of the runs that gather more neighbours, and
\* the least value of parameters.neighbors in these runs
MaxStrip == 3

INT_MAX == 2147483647

\* channel values that occur in decoded images (and in bytes read outside a buffer)
Colours == {0, 255}
\* channel counts of decoded images
Depths == {4}
\* values of the magic flag, after CLAMPV(parameters.magic, 0, 255)
Magics == {0, 128}
\* values of the autism flag in 256ths, after CLAMPV(parameters.autism, 0., 1.)
Autisms == {0, 256}
\* values time(0) returns
Times == {2}
\* values of the scale flag: a multiplier, or minus the side of a square output
Scales == {1, -MaxDim}

MIN(a, b) == IF a < b THEN a ELSE b

\* a + b of two ints on a build whose int arithmetic wraps, computed without
\* leaving the range of int
AddInt(a, b) ==
    IF b > 0 /\ a > INT_MAX - b THEN ((a - INT_MAX) + (b - INT_MAX)) - 2
    ELSE IF b < 0 /\ a < (-INT_MAX - 1) - b THEN ((a + INT_MAX) + (b + INT_MAX)) + 2
    ELSE a + b

\* ------------------------------------------------------------------------
\* Coord
\* ------------------------------------------------------------------------
Coord(x, y) == [x |-> x, y |-> y]

coord_add(a, b) == Coord(a.x + b.x, a.y + b.y)

coord_sub(a, b) == Coord(a.x - b.x, a.y - b.y)

\* coord_compare with a->y in place of a->y * a->y
coord_compare_PlainY(a, b) == (a.x * a.x + a.y) - (b.x * b.x + b.y)

coord_compare(a, b) == (a.x * a.x + a.y * a.y) - (b.x * b.x + b.y * b.y)

\* ------------------------------------------------------------------------
\* Image
\* ------------------------------------------------------------------------
Image(w, h, d) == [width |-> w, height |-> h, depth |-> d]

\* the pixel index of image_at(image, x, y)
image_at(image, x, y) == y * image.width + x

\* image_atc for the pixel after the one asked for, the first after the last
image_atc_NextPixel(image, coord) ==
    (image_at(image, coord.x, coord.y) + 1) % (image.width * image.height)

image_atc(image, coord) == image_at(image, coord.x, coord.y)

\* the number of pixels MEMORY allocates for an image
Area(image) == image.width * image.height

\* the coordinates pushed by a y-outer, x-inner loop over an image
RowMajor(image) ==
    [k \in 1..Area(image) |->
        Coord((k - 1) % image.width, (k - 1) \div image.width)]

InBounds(image, c) ==
    ~(c.x < 0 \/ c.y < 0 \/ c.x >= image.width \/ c.y >= image.height)

\* ------------------------------------------------------------------------
\* wrap_or_clip
\* ------------------------------------------------------------------------
\* one pair of while loops of wrap_or_clip on one axis: the coordinate v is
\* moved by dim while it is out of range if the axis tiles, and the call fails
\* if it is out of range and the axis does not tile
\* WrapAxis with > in place of >= in the upper loop's condition
RECURSIVE WrapAxis_UpperOffByOne(_, _, _)
WrapAxis_UpperOffByOne(v, dim, tile) ==
    IF v < 0
        THEN IF tile THEN WrapAxis_UpperOffByOne(v + dim, dim, tile)
             ELSE [ok |-> FALSE, v |-> v]
    ELSE IF v > dim
        THEN IF tile THEN WrapAxis_UpperOffByOne(v - dim, dim, tile)
             ELSE [ok |-> FALSE, v |-> v]
    ELSE [ok |-> TRUE, v |-> v]

RECURSIVE WrapAxis(_, _, _)
WrapAxis(v, dim, tile) ==
    IF v < 0
        THEN IF tile THEN WrapAxis(v + dim, dim, tile) ELSE [ok |-> FALSE, v |-> v]
    ELSE IF v >= dim
        THEN IF tile THEN WrapAxis(v - dim, dim, tile) ELSE [ok |-> FALSE, v |-> v]
    ELSE [ok |-> TRUE, v |-> v]

\* the return value of wrap_or_clip and the point it leaves in *point
wrap_or_clip(params, image, point) ==
    LET rx == WrapAxis(point.x, image.width, params.h_tile) IN
    IF ~rx.ok THEN [ok |-> FALSE, point |-> Coord(rx.v, point.y)]
    ELSE LET ry == WrapAxis(point.y, image.height, params.v_tile) IN
         [ok |-> ry.ok, point |-> Coord(rx.v, ry.v)]

\* ------------------------------------------------------------------------
\* make_offset_list
\* ------------------------------------------------------------------------
\* the offsets in the order the two loops push them
PushOffsets(corpusImage, dataImage) ==
    LET width == MIN(corpusImage.width, dataImage.width)
        height == MIN(corpusImage.height, dataImage.height)
        nx == 2 * width - 1
        ny == 2 * height - 1
    IN  IF nx < 1 \/ ny < 1 THEN << >>
        ELSE [k \in 1..(nx * ny) |->
                Coord(-width + 1 + ((k - 1) % nx), -height + 1 + ((k - 1) \div nx))]

\* the arrays qsort may leave: every arrangement of the entries at the indices
\* I of list in which no entry compares greater than a later one; the order of
\* entries that compare equal is not specified
RECURSIVE Qsort(_, _)
Qsort(list, I) ==
    IF I = {} THEN {<< >>}
    ELSE UNION {{<<list[m]>> \o t : t \in Qsort(list, I \ {m})} :
                 m \in {a \in I : \A b \in I : coord_compare(list[a], list[b]) <= 0}}

\* the results make_offset_list can leave in sorted_offsets
make_offset_list(corpusImage, dataImage) ==
    LET pushed == PushOffsets(corpusImage, dataImage)
    IN  Qsort(pushed, DOMAIN pushed)

\* ------------------------------------------------------------------------
\* the diff table
\* ------------------------------------------------------------------------
\* (int)(neglog_cauchy(i / 256.0 / autism) / neglog_cauchy(1.0 / autism) * 65536.0)
\* for autism = 1.0 and |i| = 0..256, as computed in double precision
CauchyTable ==
    << 0, 1, 5, 12, 23, 36, 51, 70, 92, 116, 144, 174, 207, 243, 282, 324, 368,
       416, 466, 519, 575, 634, 695, 760, 827, 897, 970, 1045, 1124, 1205, 1289,
       1376, 1465, 1558, 1653, 1750, 1851, 1954, 2060, 2169, 2280, 2394, 2511,
       2630, 2752, 2877, 3004, 3134, 3266, 3401, 3539, 3679, 3822, 3968, 4115,
       4266, 4419, 4574, 4732, 4893, 5056, 5221, 5389, 5559, 5731, 5906, 6084,
       6264, 6446, 6630, 6817, 7006, 7197, 7391, 7587, 7785, 7986, 8188, 8393,
       8600, 8809, 9021, 9234, 9450, 9668, 9887, 10109, 10333, 10559, 10788,
       11018, 11250, 11484, 11720, 11958, 12198, 12440, 12684, 12929, 13177,
       13426, 13678, 13931, 14186, 14442, 14701, 14961, 15223, 15487, 15752,
       16019, 16288, 16558, 16830, 17104, 17379, 17656, 17935, 18215, 18496,
       18779, 19064, 19350, 19638, 19927, 20217, 20509, 20803, 21097, 21394,
       21691, 21990, 22290, 22592, 22895, 23199, 23504, 23811, 24119, 24428,
       24738, 25050, 25362, 25676, 25991, 26308, 26625, 26943, 27263, 27583,
       27905, 28228, 28552, 28876, 29202, 29529, 29857, 30185, 30515, 30846,
       31177, 31510, 31843, 32177, 32512, 32848, 33185, 33523, 33861, 34200,
       34540, 34881, 35223, 35565, 35908, 36252, 36596, 36941, 37287, 37634,
       37981, 38329, 38677, 39027, 39376, 39727, 40078, 40429, 40781, 41134,
       41487, 41841, 42195, 42550, 42905, 43261, 43618, 43974, 44332, 44689,
       45047, 45406, 45765, 46124, 46484, 46844, 47205, 47566, 47927, 48289,
       48651, 49013, 49376, 49739, 50102, 50466, 50830, 51194, 51559, 51923,
       52288, 52654, 53019, 53385, 53751, 54117, 54483, 54850, 55217, 55584,
       55951, 56318, 56686, 57053, 57421, 57789, 58157, 58525, 58893, 59262,
       59630, 59999, 60368, 60736, 61105, 61474, 61843, 62212, 62581, 62951,
       63320, 63689, 64058, 64428, 64797, 65166, 65536 >>

Abs(v) == IF v < 0 THEN -v ELSE v

\* DiffCost with d > 0 in place of d # 0
DiffCost_PositiveOnly(autism, d) ==
    IF autism > 0 THEN CauchyTable[Abs(d) + 1]
    ELSE (IF d > 0 THEN 1 ELSE 0) * 65536

\* the value the loops of lines 246..252 store in diff_table[256 + d]
DiffCost(autism, d) ==
    IF autism > 0 THEN CauchyTable[Abs(d) + 1]
    ELSE (IF d # 0 THEN 1 ELSE 0) * 65536

\* the entries of the 512 of diff_table that are kept in the state: entry 0,
\* and the entries 256 + a - b a difference of two channel values can address
DiffIndices == {0} \cup {256 + a - b : a \in Colours, b \in Colours}

\* these entries after MEMORY(s->diff_table, 512)
ZeroDiffTable == [k \in DiffIndices |-> 0]

\* these entries after the loops of lines 246..252
FillDiffTable(autism) == [k \in DiffIndices |-> DiffCost(autism, k - 256)]

\* ------------------------------------------------------------------------
\* libc: rand, srand
\* ------------------------------------------------------------------------
\* the generator's state after one call of rand(), which is also the value
\* the call returns: a linear congruential generator of full period
Rand(r) == (5 * r + 3) % 8

\* the generator's state after srand(seed)
Srand(s) == s % 8

\* ------------------------------------------------------------------------
\* The state: main's locals, libc's state, and the fields of Resynth_state
\* ------------------------------------------------------------------------
VARIABLES
    pc,                 \* where the program is
    parameters,         \* main's Parameters, after the flags and the CLAMPVs
    scale, seed, ret,   \* main's locals
    argc,               \* number of file arguments on the command line
    files,              \* number of file arguments consumed so far
    written,            \* the images handed to stbi_write_png so far, with their inputs
    rng,                \* the state of libc's generator
    libc_qsort,         \* the arrays qsort has been given so far, with what it left
    input_bytes,
    data, corpus, status, tried,
    data_array, corpus_array, status_array, tried_array,
    data_points, corpus_points, sorted_offsets,
    neighbors, neighbor_values, neighbor_statuses, n_neighbors,
    diff_table, best, best_point,
    data_area, p, i, position,   \* run's locals
    visited,            \* the positions visited so far in this run, in order
    scored,             \* the calls of try_point in this visit, in order
    call_point, call_result   \* the point and the result of a function called on its own

mainVars == <<parameters, scale, seed, ret, argc, files, written>>
libcVars == <<rng, libc_qsort>>
imageVars == <<input_bytes, data, corpus, data_array, corpus_array>>
statusVars == <<status, status_array>>
triedVars == <<tried, tried_array>>
listVars == <<data_points, corpus_points, sorted_offsets>>
scratchVars == <<neighbors, neighbor_values, neighbor_statuses, n_neighbors>>
diffVars == <<diff_table>>
bestVars == <<best, best_point>>
localVars == <<data_area, p, i, position>>
traceVars == <<visited, scored>>
callVars == <<call_point, call_result>>

vars == <<pc, mainVars, libcVars, imageVars, statusVars, triedVars, listVars,
          scratchVars, diffVars, bestVars, localVars, traceVars, callVars>>

\* the parameter records main can pass to run
ParamSets ==
    [h_tile : BOOLEAN, v_tile : BOOLEAN, autism : Autisms,
     neighbors : 0..MaxNeighbors, tries : 0..MaxTries,
     polish : 0..MaxPolish, magic : Magics]

\* a pixel of a decoded image of depth d
Pixels(d) == {[k \in 1..d |-> c] : c \in Colours}

\* the Status of a calloc'ed status map entry
NoStatus == [has_value |-> FALSE, has_source |-> FALSE, source |-> Coord(0, 0)]

\* Resynth_state state = {0}, before anything is loaded
ZeroState ==
    /\ ret = 0
    /\ files = 0
    /\ written = << >>
    /\ rng = 0
    /\ libc_qsort = {}
    /\ input_bytes = 0
    /\ status = Image(0, 0, 0)
    /\ tried = Image(0, 0, 0)
    /\ data_array = << >>
    /\ corpus_array = << >>
    /\ status_array = << >>
    /\ tried_array = << >>
    /\ data_points = << >>
    /\ corpus_points = << >>
    /\ sorted_offsets = << >>
    /\ neighbors = << >>
    /\ neighbor_values = << >>
    /\ neighbor_statuses = << >>
    /\ n_neighbors = 0
    /\ diff_table = << >>
    /\ best = 0
    /\ best_point = Coord(0, 0)
    /\ data_area = 0
    /\ p = 0
    /\ i = 0
    /\ position = Coord(0, 0)
    /\ visited = << >>
    /\ scored = << >>
    /\ call_result = [ok |-> FALSE, point |-> Coord(0, 0)]

\* Parameters parameters = {0}
ZeroParameters ==
    [h_tile |-> FALSE, v_tile |-> FALSE, autism |-> 0, neighbors |-> 0, tries |-> 0,
     polish |-> 0, magic |-> 0]

\* main after the flags are parsed and clamped, with one file argument
Init ==
    /\ pc = "main"
    /\ data = Image(0, 0, 0)
    /\ corpus = Image(0, 0, 0)
    /\ call_point = Coord(0, 0)
    /\ parameters \in ParamSets
    /\ scale \in Scales
    /\ seed \in 0..MaxSeed
    /\ argc = 1
    /\ ZeroState

\* the parameter records of the batches that are followed
BatchParamSets == {q \in ParamSets : q.autism = 0 /\ q.magic = 0}

\* main with a fixed seed and MaxFiles file arguments, each output of the size
\* of its corpus
InitBatch ==
    /\ pc = "main"
    /\ data = Image(0, 0, 0)
    /\ corpus = Image(0, 0, 0)
    /\ call_point = Coord(0, 0)
    /\ parameters \in BatchParamSets
    /\ scale = 1
    /\ seed \in 1..MaxSeed
    /\ argc = MaxFiles
    /\ ZeroState

\* ------------------------------------------------------------------------
\* main, lines 458..484: load the next image file and set up corpus and data
\* ------------------------------------------------------------------------
\* the width and height of the output image
DataSize(w, h) ==
    IF scale > 0 THEN <<scale * w, scale * h>>
    ELSE IF scale < 0 THEN <<-scale, -scale>>
    ELSE <<256, 256>>

\* the sizes of the decoded images
ImageSizes == {wh \in (0..MaxDim) \X (0..MaxDim) : wh[1] * wh[2] <= MaxArea}

\* the sizes of the decoded images of the runs on one-row images
StripSizes == {<<MaxStrip, 1>>}

\* main, lines 458..483, for an image file whose size is in sizes
LoadSized(sizes) ==
    /\ pc = "main"
    /\ files < argc
    /\ \/ \* stbi_load returns NULL
          /\ ret' = ret - 1
          /\ files' = files + 1
          /\ UNCHANGED <<pc, parameters, scale, seed, argc, written, libcVars,
                         imageVars, statusVars, triedVars, listVars, scratchVars,
                         diffVars, bestVars, localVars, traceVars, callVars>>
       \/ \E wh \in sizes, d \in Depths : LET w == wh[1]  h == wh[2] IN
            /\ \E image \in [0..(w * h - 1) -> Pixels(d)] :
                /\ corpus' = Image(w, h, d)
                /\ corpus_array' = image
                /\ input_bytes' = MIN(d, 3)
                /\ data' = Image(DataSize(w, h)[1], DataSize(w, h)[2], MIN(d, 3))
                /\ data_array' = [k \in 0..(DataSize(w, h)[1] * DataSize(w, h)[2] - 1) |->
                                    [c \in 1..MIN(d, 3) |-> 0]]
            /\ IF seed # 0 THEN rng' = Srand(seed)
               ELSE \E t \in Times : rng' = Srand(t)
            /\ pc' = "run"
            /\ UNCHANGED <<mainVars, libc_qsort, statusVars, triedVars, listVars,
                           scratchVars, diffVars, bestVars, localVars, traceVars, callVars>>

LoadImage == LoadSized(ImageSizes)

LoadStrip == LoadSized(StripSizes)

\* ------------------------------------------------------------------------
\* run, lines 210..254: allocate, build the lists and the tables
\* ------------------------------------------------------------------------
RunSetup ==
    /\ pc = "run"
    /\ status' = Image(data.width, data.height, 1)
    /\ status_array' = [k \in 0..(Area(data) - 1) |-> NoStatus]
    /\ data_points' = RowMajor(data)
    /\ corpus_points' = RowMajor(corpus)
    /\ neighbors' = << >>
    /\ neighbor_values' = << >>
    /\ neighbor_statuses' = << >>
    /\ visited' = << >>
    /\ scored' = << >>
    /\ IF Area(corpus) = 0 \/ Area(data) = 0
       THEN \* "invalid sizes": return
            /\ sorted_offsets' = << >>
            /\ diff_table' = ZeroDiffTable
            /\ pc' = "write"
            /\ UNCHANGED <<libc_qsort, data_area, p>>
       ELSE /\ LET pushed == PushOffsets(corpus, data) IN
                IF \E m \in libc_qsort : m[1] = pushed
                THEN /\ sorted_offsets' = (CHOOSE m \in libc_qsort : m[1] = pushed)[2]
                     /\ UNCHANGED libc_qsort
                ELSE /\ sorted_offsets' \in make_offset_list(corpus, data)
                     /\ libc_qsort' = libc_qsort \cup {<<pushed, sorted_offsets'>>}
            /\ diff_table' = FillDiffTable(parameters.autism)
            /\ data_area' = Area(data)
            /\ p' = 0
            /\ pc' = "sched"
    /\ UNCHANGED <<mainVars, rng, imageVars, triedVars, n_neighbors, bestVars, i,
                   position, callVars>>

\* ------------------------------------------------------------------------
\* run, lines 256..271: the scheduling loop
\* ------------------------------------------------------------------------
\* PolishCond with 1 in place of the second p
PolishCond_PlusOne(pp, polish) == pp < polish + 1

\* the condition of the loop of line 256.  polish + p overflows int once p
\* exceeds INT_MAX - polish: a build that folds the condition to polish > 0
\* never leaves the loop (a behaviour that stays in the loop for ever), a
\* build whose arithmetic wraps leaves it there
PolishCond(pp, polish) == pp < AddInt(polish, pp)

\* lines 257..263, from index k on: swap each entry with a randomly drawn one
RECURSIVE Shuffle(_, _, _, _)
Shuffle(k, area, pts, r) ==
    IF ~(k < area) THEN [points |-> pts, rng |-> r]
    ELSE LET r2 == Rand(r)
             j == r2 % area
         IN  Shuffle(k + 1, area,
                     [pts EXCEPT ![k + 1] = pts[j + 1], ![j + 1] = pts[k + 1]], r2)

\* lines 265..270: the loop over n, from the value n on
RECURSIVE Duplicate(_, _, _)
Duplicate(n, magic, pts) ==
    IF ~(n > 0) THEN pts
    ELSE LET n2 == (n * magic) \div 256
         IN  Duplicate(n2, magic, pts \o SubSeq(pts, 1, n2))

PolishRound ==
    /\ pc = "sched"
    /\ PolishCond(p, parameters.polish)
    /\ p < MaxRounds
    /\ LET sh == Shuffle(0, data_area, data_points, rng)
           pts == IF parameters.magic # 0
                  THEN Duplicate(data_area, parameters.magic, sh.points)
                  ELSE sh.points
       IN  /\ rng' = sh.rng
           /\ IF Len(pts) > MaxPoints
              THEN \* stb__sbgrowf: "ran out of memory", exit(1)
                   /\ pc' = "exit"
                   /\ UNCHANGED <<data_points, p>>
              ELSE /\ data_points' = pts
                   /\ p' = p + 1
                   /\ pc' = "sched"
    /\ UNCHANGED <<mainVars, libc_qsort, imageVars, statusVars, triedVars,
                   corpus_points, sorted_offsets, scratchVars, diffVars, bestVars,
                   data_area, i, position, traceVars, callVars>>

\* lines 256..271, the rounds from MaxRounds on, which are not followed one by
\* one.  Where a round lengthens data_points, stb__sbgrowf runs out of memory
\* and exits long before p can overflow; where it does not, the rounds only
\* permute data_points, and p reaches INT_MAX - polish + 1
PolishRest ==
    /\ pc = "sched"
    /\ PolishCond(p, parameters.polish)
    /\ ~(p < MaxRounds)
    /\ LET grows == /\ parameters.magic # 0
                    /\ Len(Duplicate(data_area, parameters.magic, data_points))
                           > Len(data_points)
       IN  IF grows
           THEN /\ pc' = "exit"
                /\ UNCHANGED p
           ELSE /\ p' = (INT_MAX - parameters.polish) + 1
                /\ pc' = "sched"
    /\ UNCHANGED <<mainVars, libcVars, imageVars, statusVars, triedVars, listVars,
                   scratchVars, diffVars, bestVars, data_area, i, position,
                   traceVars, callVars>>

\* lines 273..279: the tried map, and the first index of the visiting loop
SchedDone ==
    /\ pc = "sched"
    /\ ~PolishCond(p, parameters.polish)
    /\ tried' = Image(corpus.width, corpus.height, 1)
    /\ tried_array' = [k \in 0..(Area(corpus) - 1) |-> -1]
    /\ i' = Len(data_points) - 1
    /\ pc' = IF Len(data_points) - 1 >= 0 THEN "visit" ELSE "write"
    /\ UNCHANGED <<mainVars, libcVars, imageVars, statusVars, listVars, scratchVars,
                   diffVars, bestVars, data_area, p, position, traceVars, callVars>>

\* ------------------------------------------------------------------------
\* run, lines 279..302: the start of a visit, and the neighbours it gathers
\* ------------------------------------------------------------------------
\* the loop of lines 287..302 from offset j on (counted from 0), for the pixel
\* at pos and the status map st: acc holds the entries stored so far, each with
\* the offset, the index of the status entry and the pixel's value
\* Gather without the test of has_value of line 291
RECURSIVE Gather_IgnoresHasValue(_, _, _, _)
Gather_IgnoresHasValue(j, acc, pos, st) ==
    IF ~(j < Len(sorted_offsets)) THEN acc
    ELSE LET r == wrap_or_clip(parameters, data, coord_add(pos, sorted_offsets[j + 1]))
         IN  IF r.ok
             THEN LET acc2 == Append(acc, [offset |-> sorted_offsets[j + 1],
                                           status |-> image_atc(status, r.point),
                                           value |-> data_array[image_atc(data, r.point)]])
                  IN  IF Len(acc2) >= parameters.neighbors THEN acc2
                      ELSE Gather_IgnoresHasValue(j + 1, acc2, pos, st)
             ELSE Gather_IgnoresHasValue(j + 1, acc, pos, st)

RECURSIVE Gather(_, _, _, _)
Gather(j, acc, pos, st) ==
    IF ~(j < Len(sorted_offsets)) THEN acc
    ELSE LET r == wrap_or_clip(parameters, data, coord_add(pos, sorted_offsets[j + 1]))
         IN  IF r.ok /\ st[image_atc(status, r.point)].has_value
             THEN LET acc2 == Append(acc, [offset |-> sorted_offsets[j + 1],
                                           status |-> image_atc(status, r.point),
                                           value |-> data_array[image_atc(data, r.point)]])
                  IN  IF Len(acc2) >= parameters.neighbors THEN acc2
                      ELSE Gather(j + 1, acc2, pos, st)
             ELSE Gather(j + 1, acc, pos, st)

\* MarkValue with has_source in place of has_value
MarkValue_SetsSource(st) == [st EXCEPT !.has_source = TRUE]

\* line 283: the Status of the visited pixel once its visit has started
MarkValue(st) == [st EXCEPT !.has_value = TRUE]

BeginVisit ==
    /\ pc = "visit"
    /\ LET pos == data_points[i + 1]
           st == [status_array EXCEPT ![image_atc(status, pos)] = MarkValue(@)]
           g == Gather(0, << >>, pos, st)
       IN  /\ position' = pos
           /\ status_array' = st
           /\ visited' = Append(visited, pos)
           /\ scored' = << >>
           /\ IF Len(g) <= parameters.neighbors
              THEN /\ neighbors' = [k \in 1..Len(g) |-> g[k].offset]
                   /\ neighbor_statuses' = [k \in 1..Len(g) |-> g[k].status]
                   /\ neighbor_values' = [k \in 1..Len(g) |-> g[k].value]
                   /\ n_neighbors' = Len(g)
                   /\ pc' = "search"
              ELSE \* a store past the end of the scratch arrays: undefined
                   \/ /\ pc' = "crashed"
                      /\ n_neighbors' = 0
                      /\ UNCHANGED <<neighbors, neighbor_statuses, neighbor_values>>
                   \/ /\ neighbors' = [k \in 1..Len(g) |-> g[k].offset]
                      /\ neighbor_statuses' = [k \in 1..Len(g) |-> g[k].status]
                      /\ neighbor_values' = [k \in 1..Len(g) |-> g[k].value]
                      /\ n_neighbors' = Len(g)
                      /\ pc' = "search"
    /\ UNCHANGED <<mainVars, libcVars, imageVars, status, triedVars, listVars,
                   diffVars, bestVars, data_area, p, i, callVars>>

\* ------------------------------------------------------------------------
\* try_point
\* ------------------------------------------------------------------------
\* the loop of lines 197..199 from channel j on (counted from 0)
RECURSIVE ChannelSum(_, _, _)
ChannelSum(j, data_pixel, corpus_pixel) ==
    IF ~(j < input_bytes) THEN 0
    ELSE diff_table[256 + data_pixel[j + 1] - corpus_pixel[j + 1]]
         + ChannelSum(j + 1, data_pixel, corpus_pixel)

\* what neighbour k (counted from 0) adds to sum for the candidate point
NeighborCost(point, k) ==
    LET off_point == coord_add(point, neighbors[k + 1])
    IN  IF off_point.x < 0 \/ off_point.y < 0 \/
           off_point.x >= corpus.width \/ off_point.y >= corpus.height
        THEN diff_table[0] * input_bytes
        ELSE IF k # 0
        THEN ChannelSum(0, neighbor_values[k + 1],
                        corpus_array[image_atc(corpus, off_point)])
        ELSE 0

\* TrySum with > in place of >= in the test of line 204
RECURSIVE TrySum_PruneStrict(_, _, _, _)
TrySum_PruneStrict(point, k, sum, bestSoFar) ==
    IF ~(k < n_neighbors) THEN [returned |-> FALSE, sum |-> sum]
    ELSE LET sum2 == sum + NeighborCost(point, k)
         IN  IF sum2 > bestSoFar THEN [returned |-> TRUE, sum |-> sum2]
             ELSE TrySum_PruneStrict(point, k + 1, sum2, bestSoFar)

\* the loop of lines 189..203 from neighbour k on, with the sum so far:
\* returned is FALSE when the loop runs to its end
RECURSIVE TrySum(_, _, _, _)
TrySum(point, k, sum, bestSoFar) ==
    IF ~(k < n_neighbors) THEN [returned |-> FALSE, sum |-> sum]
    ELSE LET sum2 == sum + NeighborCost(point, k)
         IN  IF sum2 >= bestSoFar THEN [returned |-> TRUE, sum |-> sum2]
             ELSE TrySum(point, k + 1, sum2, bestSoFar)

\* best and best_point after try_point(s, point), from the pair b
try_point(b, point) ==
    LET r == TrySum(point, 0, 0, b.best)
    IN  IF r.returned THEN b
        ELSE [best |-> r.sum, best_point |-> point]

\* ------------------------------------------------------------------------
\* run, lines 304..322: the search of a visit
\* ------------------------------------------------------------------------
\* the search state after one more call of try_point
Score(s, point, phase) ==
    LET b == try_point([best |-> s.best, best_point |-> s.best_point], point)
    IN  [s EXCEPT !.best = b.best, !.best_point = b.best_point,
                  !.scored = Append(s.scored,
                                    [point |-> point, phase |-> phase,
                                     before |-> s.best, after |-> b.best])]

\* Phase1 without the stamp of line 316
RECURSIVE Phase1_NoStamp(_, _)
Phase1_NoStamp(j, s) ==
    IF ~(j < n_neighbors /\ s.best # 0) THEN s
    ELSE IF status_array[neighbor_statuses[j + 1]].has_source
    THEN LET point == coord_sub(status_array[neighbor_statuses[j + 1]].source,
                                neighbors[j + 1])
         IN  IF point.x < 0 \/ point.y < 0 \/
                point.x >= corpus.width \/ point.y >= corpus.height
             THEN Phase1_NoStamp(j + 1, s)
             ELSE IF s.tried_array[image_atc(tried, point)] = i
             THEN Phase1_NoStamp(j + 1, s)
             ELSE Phase1_NoStamp(j + 1, Score(s, point, 1))
    ELSE Phase1_NoStamp(j + 1, s)

\* the loop of lines 306..318 from neighbour j on (counted from 0)
RECURSIVE Phase1(_, _)
Phase1(j, s) ==
    IF ~(j < n_neighbors /\ s.best # 0) THEN s
    ELSE IF status_array[neighbor_statuses[j + 1]].has_source
    THEN LET point == coord_sub(status_array[neighbor_statuses[j + 1]].source,
                                neighbors[j + 1])
         IN  IF point.x < 0 \/ point.y < 0 \/
                point.x >= corpus.width \/ point.y >= corpus.height
             THEN Phase1(j + 1, s)
             ELSE IF s.tried_array[image_atc(tried, point)] = i
             THEN Phase1(j + 1, s)
             ELSE Phase1(j + 1,
                         [Score(s, point, 1) EXCEPT
                             !.tried_array[image_atc(tried, point)] = i])
    ELSE Phase1(j + 1, s)

\* Phase2 without the test of s->best in the condition of line 320
RECURSIVE Phase2_IgnoresBest(_, _)
Phase2_IgnoresBest(j, s) ==
    IF ~(j < parameters.tries) THEN s
    ELSE LET r2 == Rand(s.rng)
             point == corpus_points[(r2 % Len(corpus_points)) + 1]
         IN  Phase2_IgnoresBest(j + 1, [Score(s, point, 2) EXCEPT !.rng = r2])

\* the loop of lines 320..322 from iteration j on
RECURSIVE Phase2(_, _)
Phase2(j, s) ==
    IF ~(j < parameters.tries /\ s.best # 0) THEN s
    ELSE LET r2 == Rand(s.rng)
             point == corpus_points[(r2 % Len(corpus_points)) + 1]
         IN  Phase2(j + 1, [Score(s, point, 2) EXCEPT !.rng = r2])

Search ==
    /\ pc = "search"
    /\ LET s0 == [best |-> INT_MAX, best_point |-> best_point,
                  tried_array |-> tried_array, rng |-> rng, scored |-> << >>]
           s2 == Phase2(0, Phase1(0, s0))
       IN  /\ best' = s2.best
           /\ best_point' = s2.best_point
           /\ tried_array' = s2.tried_array
           /\ rng' = s2.rng
           /\ scored' = s2.scored
    /\ pc' = "commit"
    /\ UNCHANGED <<mainVars, libc_qsort, imageVars, statusVars, tried, listVars,
                   scratchVars, diffVars, localVars, visited, callVars>>

\* ------------------------------------------------------------------------
\* run, lines 324..330: the commit of a visit, and the step of the loop
\* ------------------------------------------------------------------------
\* the first input_bytes channels of a corpus pixel
InputBytes(pixel) == [c \in 1..input_bytes |-> pixel[c]]

\* lines 328..329: the Status of the visited pixel once src is committed
MarkSource(st, src) == [st EXCEPT !.has_source = TRUE, !.source = src]

Commit ==
    /\ pc = "commit"
    /\ \/ /\ image_atc(corpus, best_point) \in DOMAIN corpus_array
          /\ data_array' = [data_array EXCEPT ![image_atc(data, position)] =
                               InputBytes(corpus_array[image_atc(corpus, best_point)])]
          /\ pc' = IF i - 1 >= 0 THEN "visit" ELSE "write"
       \/ \* a read past the end of corpus_array: undefined, some bytes
          /\ image_atc(corpus, best_point) \notin DOMAIN corpus_array
          /\ \E bytes \in Pixels(input_bytes) :
                data_array' = [data_array EXCEPT ![image_atc(data, position)] = bytes]
          /\ pc' = IF i - 1 >= 0 THEN "visit" ELSE "write"
       \/ \* a read past the end of corpus_array: undefined, a fault
          /\ image_atc(corpus, best_point) \notin DOMAIN corpus_array
          /\ pc' = "crashed"
          /\ UNCHANGED data_array
    /\ IF pc' = "crashed" THEN UNCHANGED <<status_array, i>>
       ELSE /\ status_array' = [status_array EXCEPT ![image_atc(status, position)] =
                                   MarkSource(@, best_point)]
            /\ i' = i - 1
    /\ UNCHANGED <<mainVars, libcVars, input_bytes, data, corpus, corpus_array, status,
                   triedVars, listVars, scratchVars, diffVars, bestVars, data_area, p,
                   position, traceVars, callVars>>

\* ------------------------------------------------------------------------
\* main, lines 486..495: write the output image
\* ------------------------------------------------------------------------
WriteOutput ==
    /\ pc = "write"
    /\ written' = Append(written, [corpus |-> corpus, corpus_array |-> corpus_array,
                                   data |-> data, data_array |-> data_array])
    /\ \/ ret' = ret          \* stbi_write_png succeeds
       \/ ret' = ret - 1      \* "failed to write"
    /\ files' = files + 1
    /\ pc' = "main"
    /\ UNCHANGED <<parameters, scale, seed, argc, libcVars, imageVars, statusVars,
                   triedVars, listVars, scratchVars, diffVars, bestVars, localVars,
                   traceVars, callVars>>

\* ------------------------------------------------------------------------
\* main, lines 498..500: no file is left; state_free and return
\* ------------------------------------------------------------------------
Exit ==
    /\ pc = "main"
    /\ ~(files < argc)
    /\ data_points' = << >>
    /\ corpus_points' = << >>
    /\ sorted_offsets' = << >>
    /\ diff_table' = << >>
    /\ data_array' = << >>
    /\ corpus_array' = << >>
    /\ status_array' = << >>
    /\ tried_array' = << >>
    /\ pc' = "exit"
    /\ UNCHANGED <<mainVars, libcVars, input_bytes, data, corpus, status, tried,
                   scratchVars, bestVars, localVars, traceVars, callVars>>

Next ==
    \/ LoadImage
    \/ RunSetup
    \/ PolishRound
    \/ PolishRest
    \/ SchedDone
    \/ BeginVisit
    \/ Search
    \/ Commit
    \/ WriteOutput
    \/ Exit

\* one file
Spec == Init /\ [][Next]_vars

\* a batch of MaxFiles files
SpecBatch == InitBatch /\ [][Next]_vars

\* the parameter records of the runs on one-row images: MaxStrip neighbours,
\* or one more; v_tile is main's default, no offset of a one-row image leaves
\* its row
StripParamSets ==
    [h_tile : BOOLEAN, v_tile : {TRUE}, autism : Autisms,
     neighbors : MaxStrip..(MaxStrip + 1), tries : 0..MaxTries, polish : 0..MaxPolish,
     magic : {0}]

\* main with a seed flag and one file argument, the output of the size of its
\* corpus
InitStrip ==
    /\ pc = "main"
    /\ data = Image(0, 0, 0)
    /\ corpus = Image(0, 0, 0)
    /\ call_point = Coord(0, 0)
    /\ parameters \in StripParamSets
    /\ scale = 1
    /\ seed \in 1..MaxSeed
    /\ argc = 1
    /\ ZeroState

NextStrip ==
    \/ LoadStrip
    \/ RunSetup
    \/ PolishRound
    \/ PolishRest
    \/ SchedDone
    \/ BeginVisit
    \/ Search
    \/ Commit
    \/ WriteOutput
    \/ Exit

\* one file that decodes to a one-row image of MaxStrip pixels
SpecStrip == InitStrip /\ [][NextStrip]_vars

\* ------------------------------------------------------------------------
\* wrap_or_clip called on its own, on any point and any non-empty image
\* ------------------------------------------------------------------------
InitWrap ==
    /\ pc = "wrap_or_clip"
    /\ \E h \in BOOLEAN, v \in BOOLEAN :
          parameters = [ZeroParameters EXCEPT !.h_tile = h, !.v_tile = v]
    /\ \E w \in 1..MaxDim, h \in 1..MaxDim : data = Image(w, h, 1)
    /\ corpus = Image(0, 0, 0)
    /\ \E x \in (-MaxCoord)..MaxCoord, y \in (-MaxCoord)..MaxCoord :
          call_point = Coord(x, y)
    /\ scale = 1
    /\ seed = 0
    /\ argc = 0
    /\ ZeroState

CallWrapOrClip ==
    /\ pc = "wrap_or_clip"
    /\ call_result' = wrap_or_clip(parameters, data, call_point)
    /\ pc' = "returned"
    /\ UNCHANGED <<mainVars, libcVars, imageVars, statusVars, triedVars, listVars,
                   scratchVars, diffVars, bestVars, localVars, traceVars, call_point>>

SpecWrap == InitWrap /\ [][CallWrapOrClip]_vars

\* ------------------------------------------------------------------------
\* make_offset_list called on its own, on any two non-empty images
\* ------------------------------------------------------------------------
InitOffsets ==
    /\ pc = "make_offset_list"
    /\ parameters = ZeroParameters
    /\ \E w \in 1..MaxOffsetW, h \in 1..MaxOffsetH : data = Image(w, h, 1)
    /\ \E w \in 1..MaxOffsetW, h \in 1..MaxOffsetH : corpus = Image(w, h, 1)
    /\ call_point = Coord(0, 0)
    /\ scale = 1
    /\ seed = 0
    /\ argc = 0
    /\ ZeroState

CallMakeOffsetList ==
    /\ pc = "make_offset_list"
    /\ sorted_offsets' \in make_offset_list(corpus, data)
    /\ pc' = "returned"
    /\ UNCHANGED <<mainVars, libcVars, imageVars, statusVars, triedVars, data_points,
                   corpus_points, scratchVars, diffVars, bestVars, localVars,
                   traceVars, callVars>>

SpecOffsets == InitOffsets /\ [][CallMakeOffsetList]_vars

\* ------------------------------------------------------------------------
\* Properties of run and main
\* ------------------------------------------------------------------------
\* run is past its size check and neither list was empty
SizesValid == Area(corpus) > 0 /\ Area(data) > 0

\* run is in its visiting loop, or has just returned from it
Visiting == pc \in {"visit", "search", "commit"} \/ (pc = "write" /\ SizesValid)

\* run has returned after its visiting loop
RunFinished == pc = "write" /\ SizesValid

\* C1: when run() finishes on a non-empty corpus and output, every output
\* pixel has has_value and has_source set and its source lies inside the corpus.
C1_AllResolvedInCorpus ==
    RunFinished =>
        \A k \in DOMAIN status_array :
            /\ status_array[k].has_value
            /\ status_array[k].has_source
            /\ 0 <= status_array[k].source.x
            /\ status_array[k].source.x < corpus.width
            /\ 0 <= status_array[k].source.y
            /\ status_array[k].source.y < corpus.height

\* C2: the scheduling loop runs exactly parameters.polish rounds: the number of
\* rounds executed never exceeds polish.
C2_ExactlyPolishRounds ==
    pc \in {"sched", "visit", "search", "commit", "write"} /\ SizesValid
        => p <= parameters.polish

\* C3: with polish = 0 the visiting list has width * height entries, holds every
\* output coordinate exactly once, and is visited from its last entry to its
\* first, each entry once.
C3_PolishZeroVisitsEachOnce ==
    (Visiting /\ parameters.polish = 0) =>
        /\ Len(data_points) = data.width * data.height
        /\ \A x \in 0..(data.width - 1), y \in 0..(data.height - 1) :
              Cardinality({k \in DOMAIN data_points : data_points[k] = Coord(x, y)}) = 1
        /\ Len(visited) <= Len(data_points)
        /\ \A k \in DOMAIN visited : visited[k] = data_points[Len(data_points) - k + 1]
        /\ (pc = "write" => Len(visited) = Len(data_points))

C3_Witness ==
    /\ pc = "write"
    /\ parameters.polish = 0
    /\ parameters.magic # 0
    /\ Len(visited) = MaxDim * MaxDim

\* C4: the number of gathered neighbours never exceeds parameters.neighbors, the
\* number of entries of the scratch arrays, so every store to them is inside.
C4_NeighborsWithinScratch == n_neighbors <= parameters.neighbors

C4_Witness == pc = "search" /\ parameters.neighbors = 0

\* the three states of an output pixel's Status
Unresolved(st) == ~st.has_value /\ ~st.has_source
Pending(st) == st.has_value /\ ~st.has_source
Resolved(st) == st.has_value /\ st.has_source

\* C5: within a run a pixel's status only moves Unresolved -> Pending at the
\* start of its visit and Pending -> Resolved at the end of its visit;
\* has_value and has_source are never reset, has_source implies has_value, and
\* a Resolved pixel stays Resolved.
C5_Step ==
    pc \in {"sched", "visit", "search", "commit"} =>
        /\ DOMAIN status_array' = DOMAIN status_array
        /\ \A k \in DOMAIN status_array :
            LET a == status_array[k]
                b == status_array'[k]
            IN  /\ a.has_value => b.has_value
                /\ a.has_source => b.has_source
                /\ a.has_source => a.has_value
                /\ b.has_source => b.has_value
                /\ Resolved(a) => Resolved(b)
                /\ (Unresolved(a) /\ ~Unresolved(b)) =>
                      /\ Pending(b)
                      /\ pc = "visit"
                      /\ k = image_atc(status, data_points[i + 1])
                /\ (Pending(a) /\ ~Pending(b)) =>
                      /\ Resolved(b)
                      /\ pc = "commit"
                      /\ k = image_atc(status, position)

C5_StatusOnlyAdvances == [][C5_Step]_vars

C5_Witness ==
    /\ pc = "commit"
    /\ \E k \in DOMAIN status_array : Pending(status_array[k])
    /\ \E k \in DOMAIN status_array : Resolved(status_array[k])
    /\ \E k \in DOMAIN status_array : Unresolved(status_array[k])

\* C6: after every visit each Resolved output pixel holds the first input_bytes
\* channels of the corpus pixel at its recorded source, so every output colour
\* is the colour of some corpus pixel.
C6_OutputCopiesSource ==
    Visiting =>
        \A k \in DOMAIN status_array :
            Resolved(status_array[k]) =>
                /\ InBounds(corpus, status_array[k].source)
                /\ data_array[k] =
                      InputBytes(corpus_array[image_atc(corpus, status_array[k].source)])
                /\ \E c \in DOMAIN corpus_array : data_array[k] = InputBytes(corpus_array[c])

\* C7: two runs with the same non-zero seed, corpus, output size and parameters
\* write the same output, whatever an earlier run of the batch left in the state.
C7_SameInputsSameOutput ==
    seed # 0 =>
        \A a \in DOMAIN written, b \in DOMAIN written :
            (/\ written[a].corpus = written[b].corpus
             /\ written[a].corpus_array = written[b].corpus_array
             /\ written[a].data = written[b].data)
                => written[a].data_array = written[b].data_array

\* C8: when the corpus or the output has no pixels, run() returns without
\* having modified the status map, the point lists, the diff table, the tried
\* map or the output pixels.
C8_Step ==
    (pc = "run" /\ ~SizesValid) =>
        UNCHANGED <<status_array, data_points, corpus_points, diff_table,
                    tried_array, data_array>>

C8_AbortTouchesNothing == [][C8_Step]_vars

\* ------------------------------------------------------------------------
\* Properties of wrap_or_clip
\* ------------------------------------------------------------------------
InRange(v, dim) == 0 <= v /\ v < dim

\* the resolved coordinate is in range and differs from the given one by a
\* multiple of dim
Wrapped(from, to, dim) == InRange(to, dim) /\ (to - from) % dim = 0

\* wrap_or_clip returns true exactly when every axis that does not tile was in range
ReturnsTrueIffInRange ==
    call_result.ok <=>
        /\ parameters.h_tile \/ InRange(call_point.x, data.width)
        /\ parameters.v_tile \/ InRange(call_point.y, data.height)

\* C9 as stated: on an image of width and height >= 1, an axis that tiles is
\* resolved into [0,dim) congruent to the input; an axis that does not tile and
\* is out of range makes the call return false; the call returns true exactly
\* when every axis that does not tile was in range.
C9_EveryTilingAxisResolved ==
    (pc = "returned" /\ data.width >= 1 /\ data.height >= 1) =>
        /\ parameters.h_tile => Wrapped(call_point.x, call_result.point.x, data.width)
        /\ parameters.v_tile => Wrapped(call_point.y, call_result.point.y, data.height)
        /\ (~parameters.h_tile /\ ~InRange(call_point.x, data.width)) => ~call_result.ok
        /\ (~parameters.v_tile /\ ~InRange(call_point.y, data.height)) => ~call_result.ok
        /\ ReturnsTrueIffInRange

\* C9 as amended: the x axis is resolved whenever it tiles; the y axis is
\* resolved when it tiles and the x axis did not fail, and is left as given
\* when the x axis fails; the rest as stated.
C9_TilingAxisResolvedUnlessXFails ==
    (pc = "returned" /\ data.width >= 1 /\ data.height >= 1) =>
        LET xFails == ~parameters.h_tile /\ ~InRange(call_point.x, data.width)
        IN  /\ parameters.h_tile => Wrapped(call_point.x, call_result.point.x, data.width)
            /\ (parameters.v_tile /\ ~xFails) =>
                  Wrapped(call_point.y, call_result.point.y, data.height)
            /\ xFails => call_result.point = call_point
            /\ xFails => ~call_result.ok
            /\ (~parameters.v_tile /\ ~InRange(call_point.y, data.height)) => ~call_result.ok
            /\ ReturnsTrueIffInRange

C9_Witness ==
    /\ pc = "returned"
    /\ call_result.ok
    /\ parameters.h_tile /\ ~parameters.v_tile
    /\ call_point.x < -data.width
    /\ call_result.point.x # call_point.x

\* ------------------------------------------------------------------------
\* Properties of make_offset_list
\* ------------------------------------------------------------------------
\* C10: with W and H the smaller width and height of corpus and output,
\* make_offset_list leaves (2W-1)(2H-1) offsets, each (dx,dy) with -W < dx < W
\* and -H < dy < H exactly once, with dx*dx + dy*dy never decreasing.
C10_OffsetsCompleteAndSorted ==
    pc = "returned" =>
        LET W == MIN(corpus.width, data.width)
            H == MIN(corpus.height, data.height)
        IN  /\ Len(sorted_offsets) = (2 * W - 1) * (2 * H - 1)
            /\ \A dx \in (-W + 1)..(W - 1), dy \in (-H + 1)..(H - 1) :
                  Cardinality({k \in DOMAIN sorted_offsets :
                                  sorted_offsets[k] = Coord(dx, dy)}) = 1
            /\ \A k \in 1..(Len(sorted_offsets) - 1) :
                  sorted_offsets[k].x * sorted_offsets[k].x
                      + sorted_offsets[k].y * sorted_offsets[k].y
                  <= sorted_offsets[k + 1].x * sorted_offsets[k + 1].x
                      + sorted_offsets[k + 1].y * sorted_offsets[k + 1].y

C10_Witness ==
    /\ pc = "returned"
    /\ Len(sorted_offsets) = (2 * MaxOffsetW - 1) * (2 * MaxOffsetH - 1)
    /\ sorted_offsets[2].y # 0
    /\ sorted_offsets[3].x # 0

\* a coordinate outside the corpus, as tested at lines 191..192 and 310..311
OutsideCorpus(c) ==
    c.x < 0 \/ c.y < 0 \/ c.x >= corpus.width \/ c.y >= corpus.height

\* the coordinates of the corpus
CorpusCoords ==
    {Coord(x, y) : x \in 0..(corpus.width - 1), y \in 0..(corpus.height - 1)}

\* C11: for autism <= 0 the diff table holds 0 for d = 0 and 65536 for every
\* other d in [-255,255]; entry 0, the entry of d = -256, is 65536, and a
\* neighbour that falls outside the corpus adds diff_table[0] * input_bytes.
C11_HardEqualityTable ==
    (pc \in {"sched", "visit", "search", "commit"} /\ parameters.autism <= 0) =>
        /\ \A d \in (-255)..255 :
              DiffCost(parameters.autism, d) = IF d = 0 THEN 0 ELSE 65536
        /\ \A k \in DOMAIN diff_table :
              /\ diff_table[k] = DiffCost(parameters.autism, k - 256)
              /\ diff_table[k] \in {0, 65536}
        /\ diff_table[256] = 0
        /\ diff_table[0] = 65536
        /\ pc \in {"search", "commit"} =>
              \A point \in CorpusCoords, k \in 0..(n_neighbors - 1) :
                  OutsideCorpus(coord_add(point, neighbors[k + 1])) =>
                      NeighborCost(point, k) = 65536 * input_bytes

C11_Witness ==
    /\ pc = "commit"
    /\ parameters.autism = 0
    /\ \E e \in DOMAIN scored : \E k \in 1..n_neighbors :
          /\ OutsideCorpus(coord_add(scored[e].point, neighbors[k]))
          /\ scored[e].after = 65536 * input_bytes

\* the sum of lines 189..203 for the candidate point when line 204 never
\* returns: the contributions of the neighbours from k on (counted from 0)
RECURSIVE FullSumFrom(_, _)
FullSumFrom(point, k) ==
    IF ~(k < n_neighbors) THEN 0
    ELSE NeighborCost(point, k) + FullSumFrom(point, k + 1)

FullSum(point) == FullSumFrom(point, 0)

\* C12: the source committed at the end of a visit is a corpus coordinate that
\* try_point scored during this visit, and no candidate scored during this
\* visit has a lower score; for every visit, also one with tries = 0 in which
\* no gathered neighbour has has_source.
C12_CommittedSourceWasScored ==
    pc = "commit" =>
        /\ best_point \in CorpusCoords
        /\ \E e \in DOMAIN scored : scored[e].point = best_point
        /\ \A e \in DOMAIN scored : FullSum(best_point) <= FullSum(scored[e].point)

\* the candidates seq[e], seq[e + 1], ... scored without pruning from the pair
\* b: a candidate replaces the pair when its full sum is strictly lower
RECURSIVE Unpruned(_, _, _)
Unpruned(seq, e, b) ==
    IF e > Len(seq) THEN b
    ELSE LET f == FullSum(seq[e].point)
         IN  Unpruned(seq, e + 1,
                      IF f < b.best THEN [best |-> f, best_point |-> seq[e].point]
                      ELSE b)

\* C13: the search of a visit leaves the (best, best_point) that scoring the
\* same candidates in the same order without pruning leaves, and best never
\* increases from one call of try_point to the next.
C13_Step ==
    pc = "search" =>
        LET ref == Unpruned(scored', 1, [best |-> INT_MAX, best_point |-> best_point])
        IN  /\ best' = ref.best
            /\ best_point' = ref.best_point
            /\ \A e \in DOMAIN scored' :
                  /\ scored'[e].after <= scored'[e].before
                  /\ scored'[e].before = IF e = 1 THEN INT_MAX ELSE scored'[e - 1].after

C13_PruningKeepsResult == [][C13_Step]_vars

C13_Witness ==
    /\ pc = "commit"
    /\ n_neighbors = MaxStrip
    /\ \E e \in DOMAIN scored :
          /\ e > 1
          /\ scored[e].after = scored[e].before
          /\ scored[e].point # best_point
          /\ NeighborCost(scored[e].point, 0) + NeighborCost(scored[e].point, 1) >= best
          /\ FullSum(scored[e].point) > best

\* the back-reference candidate of the gathered neighbour j (counted from 0)
BackReference(j) ==
    coord_sub(status_array[neighbor_statuses[j + 1]].source, neighbors[j + 1])

HasCandidate(j) ==
    /\ status_array[neighbor_statuses[j + 1]].has_source
    /\ ~OutsideCorpus(BackReference(j))

\* the calls of try_point of phase 1 in this visit
ScoredInPhase1 == {e \in DOMAIN scored : scored[e].phase = 1}

\* C15: in one visit phase 1 scores each corpus coordinate at most once; a
\* stamp of another visit never makes phase 1 skip a candidate: every tried
\* entry is -1 or the index of the visit that stamped it, no entry holds the
\* index of a visit that has not searched yet, and when phase 1 ran to its
\* end every back-reference candidate inside the corpus was scored.
C15_TriedDeduplicatesOneVisit ==
    /\ pc \in {"visit", "search", "commit"} =>
          \A k \in DOMAIN tried_array :
              \/ tried_array[k] = -1
              \/ /\ tried_array[k] >= i
                 /\ tried_array[k] < Len(data_points)
    /\ pc \in {"visit", "search"} =>
          \A k \in DOMAIN tried_array : tried_array[k] # i
    /\ pc = "commit" =>
          /\ \A e1 \in ScoredInPhase1, e2 \in ScoredInPhase1 :
                scored[e1].point = scored[e2].point => e1 = e2
          /\ \A e \in ScoredInPhase1 : tried_array[image_atc(tried, scored[e].point)] = i
          /\ (\A e \in ScoredInPhase1 : scored[e].after # 0) =>
                \A j \in 0..(n_neighbors - 1) :
                    HasCandidate(j) =>
                        \E e \in ScoredInPhase1 : scored[e].point = BackReference(j)

\* two gathered neighbours have the same back-reference candidate, phase 1
\* ran to its end, and the candidate was scored once
C15_Witness ==
    /\ pc = "commit"
    /\ \A e \in ScoredInPhase1 : scored[e].after # 0
    /\ \E j1 \in 0..(n_neighbors - 1), j2 \in 0..(n_neighbors - 1) :
          /\ j1 < j2
          /\ HasCandidate(j1)
          /\ HasCandidate(j2)
          /\ BackReference(j1) = BackReference(j2)
          /\ Cardinality({e \in ScoredInPhase1 :
                             scored[e].point = BackReference(j1)}) = 1

\* C16: every coordinate passed to try_point lies inside the corpus, a
\* candidate of phase 1 is the unwrapped back-reference of a gathered
\* neighbour, and every corpus pixel read while scoring and at the commit is
\* at a coordinate inside the corpus.
C16_CorpusReadsInBounds ==
    pc = "commit" =>
        /\ \A e \in DOMAIN scored : scored[e].point \in CorpusCoords
        /\ \A e \in ScoredInPhase1 :
              \E j \in 0..(n_neighbors - 1) :
                  HasCandidate(j) /\ scored[e].point = BackReference(j)
        /\ \A e \in DOMAIN scored, k \in 1..(n_neighbors - 1) :
              LET off_point == coord_add(scored[e].point, neighbors[k + 1])
              IN  ~OutsideCorpus(off_point) =>
                      image_atc(corpus, off_point) \in DOMAIN corpus_array
        /\ best_point \in CorpusCoords

\* C17: with neighbors >= 1 the neighbour gathered at index 0 is the visited
\* pixel itself with offset (0,0), every neighbour at an index >= 1 is another
\* pixel, which is Resolved, and index 0 adds no channel-difference cost to
\* any candidate.
C17_FirstNeighbourIsSelf ==
    (pc \in {"search", "commit"} /\ parameters.neighbors >= 1) =>
        /\ n_neighbors >= 1
        /\ neighbors[1] = Coord(0, 0)
        /\ neighbor_statuses[1] = position.y * status.width + position.x
        /\ Pending(status_array[neighbor_statuses[1]])
        /\ \A k \in 2..n_neighbors :
              /\ neighbor_statuses[k] # neighbor_statuses[1]
              /\ neighbors[k] # Coord(0, 0)
              /\ Resolved(status_array[neighbor_statuses[k]])
        /\ \A point \in CorpusCoords : NeighborCost(point, 0) = 0

\* a visit whose gathered neighbours at the indexes 1 and up are reached
\* through tiling and are Resolved
C17_Witness ==
    /\ pc = "search"
    /\ parameters.neighbors = MaxNeighbors
    /\ n_neighbors = MaxNeighbors
    /\ Area(data) > Area(corpus)
    /\ \E k \in 2..n_neighbors :
          ~InBounds(data, coord_add(position, neighbors[k]))

\* the pixel a step of the visiting loop works on
VisitedPixel == IF pc = "visit" THEN data_points[i + 1] ELSE position

\* C18: a visit of the output pixel P changes the output buffer and the status
\* map at P only, and no step of run changes the corpus buffer.
C18_Step ==
    /\ pc \in {"run", "sched", "visit", "search", "commit"} =>
          /\ corpus' = corpus
          /\ corpus_array' = corpus_array
    /\ pc \in {"visit", "search", "commit"} =>
          LET P == VisitedPixel.y * data.width + VisitedPixel.x
          IN  /\ DOMAIN data_array' = DOMAIN data_array
              /\ DOMAIN status_array' = DOMAIN status_array
              /\ \A k \in DOMAIN data_array :
                    k # P => data_array'[k] = data_array[k]
              /\ \A k \in DOMAIN status_array :
                    k # P => status_array'[k] = status_array[k]

C18_VisitChangesOnlyItsPixel == [][C18_Step]_vars

\* a visit has just committed a colour that differs from the one its pixel
\* had, while another output pixel is Resolved
C18_Witness ==
    /\ pc \in {"visit", "write"}
    /\ Len(visited) >= 2
    /\ data_array[position.y * data.width + position.x] # <<0, 0, 0>>
    /\ \E k \in DOMAIN status_array :
          /\ k # position.y * data.width + position.x
          /\ Resolved(status_array[k])
    /\ \E k \in DOMAIN status_array : Unresolved(status_array[k])

====
